---- MODULE Spec2Model ----
(***************************************************************************)
(* The goal-inference filter of ModelWrapper (model_wrapper.cpp) and the    *)
(* plan bookkeeping of Experiment (experiment.cpp).                        *)
(*                                                                         *)
(* Numbers.  The code computes in float.  Here a probability is an integer *)
(* number of thousandths (One = 1.0f), a likelihood an integer number of   *)
(* tenths (LikOne = 1.0f), and a velocity component an integer number of   *)
(* 0.02 m/s, so that the standard deviation ox = oy = 0.06 is Sigma = 3.   *)
(* A division rounds to nearest, as a float division does.  exp() is a     *)
(* table over the squared distances the velocity grid produces; a distance *)
(* the table does not hold is an evaluation error, never a guessed value.  *)
(* NaN stands for every non-finite float the filter can compute and Inf    *)
(* for 1.0f / 0.                                                           *)
(*                                                                         *)
(* Undefined behaviour.  An access outside a vector either ends the        *)
(* process (fault) or yields a value that is not the program's to choose   *)
(* (junk).                                                                 *)
(***************************************************************************)
EXTENDS Integers, Sequences, FiniteSets, TLC

VARIABLES
  hypotheses_,        \* [agents, n_goals, goals]: sizes of hypotheses_.agents
                      \* and hypotheses_.goal_hypothesis.goal_sequence, and
                      \* whether goal-sequence simulation is asked for
                      \* (hypotheses_.goals and not goal_hypothesis.sampling)
  robot_vel_,         \* <<linear.x, linear.y>> of the last cmd_vel message
  sequence_sim_vels,  \* flattened predicted velocities, written by runSims
  init_liks_,         \* std::vector<bool>, one flag per hypothesis index
  prev_prior_,        \* std::vector<float>, one stored prior per hypothesis index
  ticklog,            \* what the last inferGoals computed, one record per agent
  ticks,              \* number of runModel calls that had an agent to process
  env_data_,          \* env_data_.agent_vels: the velocity of every agent of
                      \* the environment, by agent index
  fault,              \* the process was ended by an access outside a vector
  tick_,              \* the position of the node inside runModel and what
                      \* the calls of runModel made so far have read
  robots_,            \* Experiment: the names of the active robots
  goal_no_,           \* Experiment: the number of goals
  goals_,             \* Experiment: goals_.goal, the stored goals
  plans_,             \* Experiment: plans_.plan, one [repeat, sequence] per robot
  setup_plans_,       \* Experiment: setup_plans_.plan, likewise
  srv_,               \* Experiment: the last service request and its response
  ros_ok,             \* Experiment: ros::shutdown() was not called
  main_,              \* Experiment: the position of main, [pc, robot_no]
  robots_planning_,   \* Experiment: one planning flag per robot
  interrupted_,       \* Experiment::interrupted_
  planning_pub_,      \* Experiment: per robot, the planning messages
                      \* published so far, oldest first
  planning_sub_,      \* Experiment: per robot, the subscription queue (of
                      \* size 1) of planning messages
  use_rvo_planner_,   \* PlannerWrapper
  use_ros_navigation_,  \* PlannerWrapper
  planner_init,       \* PlannerWrapper
  planning_,          \* PlannerWrapper
  arrived_,           \* PlannerWrapper
  planners_,          \* PlannerWrapper: the planner objects created so far
  rvo_curr_vel_,      \* PlannerWrapper: the current velocity of *rvo_planner_
  cmd_vel_,           \* PlannerWrapper: <<linear.x, linear.y>> of cmd_vel_
  step_               \* PlannerWrapper: what the last service call or
                      \* plannerStep answered, published and executed

modelVars == <<hypotheses_, robot_vel_, sequence_sim_vels, init_liks_,
               prev_prior_, ticklog, ticks, env_data_, fault>>

experimentVars == <<robots_, goal_no_, goals_, plans_, setup_plans_, srv_,
                    ros_ok>>

mainVars == <<main_, robots_planning_, interrupted_, planning_pub_,
              planning_sub_>>

plannerVars == <<use_rvo_planner_, use_ros_navigation_, planner_init,
                 planning_, arrived_, planners_, rvo_curr_vel_, cmd_vel_,
                 step_>>

vars == <<modelVars, tick_, experimentVars, mainVars, plannerVars>>

----------------------------------------------------------------------------
(* Bounds of the model *)

MaxAgents == 2
MaxTicks == 3
MaxAnyTicks == 2      \* ticks of the node when fed any message
MaxStepTicks == 2     \* ticks of the node when runModel is taken call by call
MaxGoals == 3         \* goals the experiment stores
MaxPlanners == 2      \* planner objects a planner wrapper creates

(* Program constants *)

VecSize == 3          \* init(): init_liks_.resize(3, false); prev_prior_.resize(3)
One == 1000           \* 1.0f as a probability
LikOne == 10          \* 1.0f as a likelihood
Sigma == 3            \* ox = oy = (max_acc / 2) * ros_freq = 0.06
PeakLik == 442        \* p = 1 / (2 * PI * ox * oy) = 44.2
Threshold == 10       \* 0.01f
FloorPrior == 5       \* 0.005f
UnderflowExp == 104   \* expf(-x) is 0.0f for x >= 104 (below 2^-150)
LoggedGoals == 3      \* line 183 reads norm_posteriors[0], [1] and [2]
NaN == 0 - 1          \* a non-finite float; no finite value here is negative
Inf == 0 - 2          \* 1.0f / 0

(* The velocities the callbacks and the simulator deliver *)

ZeroVel == <<0, 0>>          \* a default-constructed Twist
VelA == <<50, 0>>            \* (1.00, 0)
VelB == <<53, 0>>            \* (1.06, 0): one Sigma from VelA
VelC == <<0, 50>>            \* (0, 1.00): far from all the others
NaNVel == <<NaN, NaN>>       \* a velocity with a non-finite component
ObsVels == {ZeroVel, VelA}
SimVels == {VelA, VelB, VelC}

----------------------------------------------------------------------------
(* Arithmetic *)

\* a / b in float: rounded to nearest
RDiv(a, b) == (2 * a + b) \div (2 * b)

RECURSIVE SumTo(_, _)
SumTo(s, k) == IF k = 0 THEN 0 ELSE SumTo(s, k - 1) + s[k]

Sum(s) == SumTo(s, Len(s))

\* posterior_norm += g_posteriors[goal] in float: NaN once a term is NaN
RECURSIVE SumNaN(_, _)
SumNaN(s, k) ==
  IF k = 0 THEN 0
  ELSE IF s[k] = NaN THEN NaN
  ELSE LET rest == SumNaN(s, k - 1)
       IN  IF rest = NaN THEN NaN ELSE rest + s[k]

\* 1000 * exp(-d2 / (2 * Sigma^2)), d2 a squared distance on the velocity grid
ExpMilli(d2) ==
  CASE d2 = 0 -> 1000
    [] d2 = Sigma * Sigma -> 607
    [] d2 = 4 * Sigma * Sigma -> 135
    [] d2 = 9 * Sigma * Sigma -> 11
    [] d2 >= 2 * Sigma * Sigma * UnderflowExp -> 0

----------------------------------------------------------------------------
(* inferGoals, one agent *)

\* lines 126-141: the bivariate Gaussian with corr = 0, so t3 = 0 and
\* e = exp(-(t1 + t2) / 2) with t1 + t2 = ((x-ux)^2 + (y-uy)^2) / Sigma^2
NonFinite(v) == v[1] = NaN \/ v[2] = NaN

\* With a non-finite component in x - ux or y - uy, t3 = 2 * 0 * (x - ux)
\* * (y - uy) / (ox * oy) or t1 + t2 - t3 is NaN, and so are e and p * e.
Likelihood(sim, cur) ==
  LET dx == sim[1] - cur[1]
      dy == sim[2] - cur[2]
  IN  IF NonFinite(sim) \/ NonFinite(cur) THEN NaN
      ELSE RDiv(PeakLik * ExpMilli(dx * dx + dy * dy), 1000)

\* AgentSimVels with blocks that start one element apart
AgentSimVelsUnitStride(vels, agent, n_goals) ==
  SubSeq(vels, agent + 1, agent + n_goals)

\* lines 113-117: the agent's block of the flattened predicted velocities
AgentSimVels(vels, agent, n_goals) ==
  LET begin == agent * n_goals
  IN  SubSeq(vels, begin + 1, begin + n_goals)

\* lines 112-117 when sequence_sim_vels is shorter than the block's end: the
\* range copied runs past the end of the vector
SimVelsRead(vels, agent, n_goals, junk) ==
  IF agent * n_goals + n_goals <= Len(vels)
    THEN AgentSimVels(vels, agent, n_goals)
    ELSE [goal \in 1..n_goals |->
            IF agent * n_goals + goal <= Len(vels)
              THEN vels[agent * n_goals + goal] ELSE junk.vel]

\* line 149
UniformPrior(n_goals) == IF n_goals = 0 THEN Inf ELSE RDiv(One, n_goals)

\* lines 150-162: the unnormalised posteriors of the posterior loop, in units
\* of 1 / (One * LikOne)
GPosteriors(reset_priors, n_goals, liks, init, prior) ==
  [goal \in 1..n_goals |->
     IF reset_priors \/ ~init[goal]
       THEN UniformPrior(n_goals) * LikOne
       ELSE IF liks[goal] = NaN THEN NaN ELSE liks[goal] * prior[goal]]

\* InitAfter with one flag for the whole agent: every flag is set
InitAfterWholeVector(n_goals, init) ==
  [goal \in 1..VecSize |-> TRUE]

\* line 154: the flags of the hypotheses the loop visited are set
InitAfter(n_goals, init) ==
  [goal \in 1..VecSize |-> IF goal <= n_goals THEN TRUE ELSE init[goal]]

\* NormPosterior returning the value that is stored instead of the quotient
NormPosteriorClamped(n_goals, post, norm, goal) ==
  IF norm = 0 THEN UniformPrior(n_goals)
  ELSE IF RDiv(post[goal] * One, norm) > Threshold
         THEN RDiv(post[goal] * One, norm)
         ELSE FloorPrior

\* lines 167-182: one normalised posterior
NormPosterior(n_goals, post, norm, goal) ==
  IF norm = 0 THEN UniformPrior(n_goals)
  ELSE IF norm = NaN THEN NaN ELSE RDiv(post[goal] * One, norm)

\* StoredPrior storing the uniform fallback of a degenerate tick
StoredPriorOverwritten(n_goals, post, norm, old, goal) ==
  LET norm_posterior == NormPosterior(n_goals, post, norm, goal)
  IN  IF norm = 0 THEN UniformPrior(n_goals)
      ELSE IF norm_posterior > Threshold THEN norm_posterior ELSE FloorPrior

\* StoredPrior comparing with >= 0.01 instead of > 0.01
StoredPriorAtThreshold(n_goals, post, norm, old, goal) ==
  LET norm_posterior == NormPosterior(n_goals, post, norm, goal)
  IN  IF norm = 0 THEN old
      ELSE IF norm_posterior >= Threshold THEN norm_posterior ELSE FloorPrior

\* StoredPrior without the floor
StoredPriorNoFloor(n_goals, post, norm, old, goal) ==
  IF norm = 0 THEN old ELSE NormPosterior(n_goals, post, norm, goal)

\* lines 168-178: the value stored as the next prior
StoredPrior(n_goals, post, norm, old, goal) ==
  LET norm_posterior == NormPosterior(n_goals, post, norm, goal)
  IN  IF norm = 0 THEN old
      ELSE IF norm_posterior > Threshold THEN norm_posterior ELSE FloorPrior

\* line 103
reset_priors == FALSE

\* The vectors that one iteration of the agent loop accesses outside their
\* bounds: sequence_sim_vels at lines 116-117, init_liks_ at lines 152-154,
\* prev_prior_ at line 156 (read, when the flag read is set) and lines 175-177
\* (write, when posterior_norm is not 0), norm_posteriors at lines 183-184
OutOfRange(agent, n_goals, vels, init_read, norm) ==
  IF n_goals = VecSize /\ n_goals >= LoggedGoals
       /\ agent * n_goals + n_goals <= Len(vels)
    THEN {}
    ELSE (IF agent * n_goals + n_goals > Len(vels)
            THEN {"sequence_sim_vels"} ELSE {})
         \cup (IF n_goals > VecSize THEN {"init_liks_"} ELSE {})
         \cup (IF \E goal \in (VecSize + 1)..n_goals :
                    init_read[goal] \/ norm # 0
                 THEN {"prev_prior_"} ELSE {})
         \cup (IF n_goals < LoggedGoals THEN {"norm_posteriors"} ELSE {})

\* lines 110-182: the body of the agent loop.  Returns the record of what
\* this iteration read and computed; "init" and "stored" are init_liks_ and
\* prev_prior_ after the iteration.
AgentUpdate(agent, n_goals, vels, cur, init, prior, junk) ==
  LET sims == SimVelsRead(vels, agent, n_goals, junk)
      liks == [goal \in 1..n_goals |-> Likelihood(sims[goal], cur)]
      init_read == [goal \in 1..n_goals |->
                      IF goal <= VecSize THEN init[goal] ELSE junk.flag]
      prior_read == [goal \in 1..n_goals |->
                       IF goal <= VecSize THEN prior[goal] ELSE junk.prior]
      post == GPosteriors(reset_priors, n_goals, liks, init_read, prior_read)
      norm == SumNaN(post, n_goals)
  IN  [n_goals |-> n_goals,
       cur |-> cur,
       sims |-> sims,
       uniform |-> UniformPrior(n_goals),
       oob |-> OutOfRange(agent, n_goals, vels, init_read, norm),
       liks |-> liks,
       was_init |-> init,
       prior |-> prior,
       post |-> post,
       norm |-> norm,
       belief |-> [goal \in 1..n_goals |-> NormPosterior(n_goals, post, norm, goal)],
       init |-> InitAfter(n_goals, init),
       stored |-> [goal \in 1..VecSize |->
                     IF goal <= n_goals
                       THEN StoredPrior(n_goals, post, norm, prior[goal], goal)
                       ELSE prior[goal]]]

\* lines 109-185: the agent loop from agent k on; recs holds the records of
\* agents 0 .. k-1, init and prior are init_liks_ and prev_prior_ before agent k
RECURSIVE AgentLoop(_, _, _, _, _, _, _, _, _)
AgentLoop(k, recs, agents, n_goals, vels, cur, init, prior, junk) ==
  IF k >= agents THEN recs
  ELSE LET rec == AgentUpdate(k, n_goals, vels, cur, init, prior, junk)
       IN  AgentLoop(k + 1, Append(recs, rec), agents, n_goals, vels, cur,
                     rec.init, rec.stored, junk)

----------------------------------------------------------------------------
(* Experiment: construction (experiment.cpp)                               *)

\* the robot names of the parameter server and of the service requests
RobotNames == {"r0", "r1"}

\* The parameters under /experiment: the robot list, goals/number, the set
\* of indices i for which goals/g_i exists, and the plan of each robot name.
\* A configured sequence is whatever the parameter server holds: it may be
\* empty, and it may name a goal that goals/number does not cover.
ConfigPlans ==
  {[repeat |-> TRUE, sequence |-> << >>],
   [repeat |-> TRUE, sequence |-> <<1, 0>>],
   [repeat |-> FALSE, sequence |-> <<1>>],
   [repeat |-> FALSE, sequence |-> <<MaxGoals>>]}

Configs ==
  [robots : {<<"r0">>, <<"r0", "r1">>, <<"r0", "r0">>},
   goal_n : {0, MaxGoals - 1},
   has_g : {0..(MaxGoals - 2), {0}},
   plans : [RobotNames -> ConfigPlans]]

\* the pose stored under goals/g_i
ParamGoal(i) == [x |-> i, y |-> 0, theta |-> 0]

\* lines 127-147: the goals g_i, i < goal_no_, that exist, in index order
RECURSIVE LoadGoals(_, _, _)
LoadGoals(i, goal_no, has_g) ==
  IF i >= goal_no THEN << >>
  ELSE (IF i \in has_g THEN <<ParamGoal(i)>> ELSE << >>)
       \o LoadGoals(i + 1, goal_no, has_g)

\* lines 127-129 and 142-145: ros::shutdown() is not called
LoadOk(cfg) ==
  cfg.goal_n # 0 /\ \A i \in 0..(cfg.goal_n - 1) : i \in cfg.has_g

\* std::vector::resize(n): the first n elements, value-initialised (0) ones
\* where the vector was shorter
Resize(sequence, n) ==
  [k \in 1..n |-> IF k <= Len(sequence) THEN sequence[k] ELSE 0]

\* lines 151-160: the plan of one robot as configured
LoadPlan(param) == [repeat |-> param.repeat, sequence |-> param.sequence]

\* lines 161-164: the setup plan made of a robot's plan
SetupPlan(plan) == [repeat |-> FALSE, sequence |-> Resize(plan.sequence, 1)]

\* no service request was served yet
NoCall == [call |-> "none", req |-> [none |-> TRUE], ok |-> FALSE]

\* lines 86-91 and 119-166: the members after Experiment(nh) on the
\* parameters cfg
LoadParams(cfg) ==
  /\ robots_ = cfg.robots
  /\ goal_no_ = cfg.goal_n
  /\ goals_ = LoadGoals(0, cfg.goal_n, cfg.has_g)
  /\ plans_ = [i \in 1..Len(cfg.robots) |-> LoadPlan(cfg.plans[cfg.robots[i]])]
  /\ setup_plans_ = [i \in 1..Len(cfg.robots) |->
                       SetupPlan(LoadPlan(cfg.plans[cfg.robots[i]]))]
  /\ ros_ok = LoadOk(cfg)
  /\ srv_ = NoCall

\* lines 97-102 and 104-117: init() and rosSetup(), and main before its
\* first statement; nothing is published and no message waits
InitMain ==
  /\ main_ = [pc |-> "launch", robot_no |-> 0]
  /\ robots_planning_ = [i \in DOMAIN robots_ |-> FALSE]
  /\ interrupted_ = FALSE
  /\ planning_pub_ = [i \in DOMAIN robots_ |-> << >>]
  /\ planning_sub_ = [i \in DOMAIN robots_ |-> << >>]

\* nothing was asked of the planner wrapper yet
NoStep == [call |-> "none", req |-> "none", ok |-> FALSE, cmd_vel |-> FALSE,
           arrived |-> FALSE, plan_step |-> "none"]

\* planner_wrapper.cpp lines 11-17 and 27-48: the members after
\* PlannerWrapper(nh); no planner object exists
InitPlanner ==
  /\ use_rvo_planner_ = FALSE
  /\ use_ros_navigation_ = FALSE
  /\ planner_init = FALSE
  /\ planning_ = FALSE
  /\ arrived_ = FALSE
  /\ planners_ = << >>
  /\ rvo_curr_vel_ = "none"
  /\ cmd_vel_ = ZeroVel
  /\ step_ = NoStep

\* the parameters of an experiment with one robot and two goals
OneRobotConfig ==
  [robots |-> <<"r0">>, goal_n |-> MaxGoals - 1, has_g |-> 0..(MaxGoals - 2),
   plans |-> [name \in RobotNames |-> [repeat |-> TRUE, sequence |-> <<1, 0>>]]]

----------------------------------------------------------------------------
(* The node *)

\* lines 11-21 and 51-56: the members after construction; the messages are
\* default-constructed
InitModel ==
  /\ hypotheses_ = [agents |-> 0, n_goals |-> 0, goals |-> FALSE]
  /\ robot_vel_ = ZeroVel
  /\ sequence_sim_vels = << >>
  /\ init_liks_ = [goal \in 1..VecSize |-> FALSE]
  /\ prev_prior_ = [goal \in 1..VecSize |-> 0]
  /\ ticklog = << >>
  /\ ticks = 0
  /\ env_data_ = << >>
  /\ fault = FALSE

\* the node is not inside runModel
IdleTick ==
  [pc |-> "idle",
   hyp |-> [agents |-> 0, n_goals |-> 0, goals |-> FALSE],
   prev |-> [agents |-> 0, n_goals |-> 0, goals |-> FALSE],
   vel |-> ZeroVel,
   sequence_sims_ |-> [agents |-> 0, n_goals |-> 0, goals |-> FALSE]]

Init ==
  /\ InitModel
  /\ tick_ = IdleTick
  /\ LoadParams(OneRobotConfig)
  /\ InitMain
  /\ InitPlanner

\* lines 79-81
robotVelCB ==
  /\ ~fault
  /\ ticks < MaxTicks
  /\ \E v \in ObsVels : robot_vel_' = v
  /\ UNCHANGED <<hypotheses_, sequence_sim_vels, init_liks_, prev_prior_,
                 ticklog, ticks, env_data_, fault, tick_, experimentVars, mainVars,
                 plannerVars>>

\* lines 88-91.  A hypotheses message names at least one agent and 1..VecSize
\* goals: the goal counts that index init_liks_ and prev_prior_ within the
\* size init() gives them.
modelCB ==
  /\ ~fault
  /\ ticks < MaxTicks
  /\ \E a \in 1..MaxAgents, n \in 1..VecSize :
       hypotheses_' = [agents |-> a, n_goals |-> n, goals |-> TRUE]
  /\ UNCHANGED <<robot_vel_, sequence_sim_vels, init_liks_, prev_prior_,
                 ticklog, ticks, env_data_, fault, tick_, experimentVars, mainVars,
                 plannerVars>>

\* One agent's block of predictions: hypothesis g predicts VelA, every other
\* hypothesis predicts the velocity "other"
SimBlock(n_goals, g, other) ==
  [goal \in 1..n_goals |-> IF goal = g THEN VelA ELSE other]

SimBlocks(n_goals) ==
  {SimBlock(n_goals, g, other) : g \in 1..n_goals, other \in {VelB, VelC}}

RECURSIVE Flatten(_, _)
Flatten(blocks, k) ==
  IF k = 0 THEN << >> ELSE Flatten(blocks, k - 1) \o blocks[k]

\* SimWrapper::calcSimVels (line 228): one predicted velocity per
\* (agent, hypothesis), agent-major
CalcSimVels(agents, n_goals) ==
  {Flatten(blocks, agents) : blocks \in [1..agents -> SimBlocks(n_goals)]}

\* RunSims without the clear(): predictions of an earlier call stay
RunSimsNoClear(hyp) ==
  IF hyp.goals THEN CalcSimVels(hyp.agents, hyp.n_goals)
  ELSE {sequence_sim_vels}

\* lines 220-230: runSims clears sequence_sim_vels and refills it only when
\* goal-sequence simulation is asked for
RunSims(hyp) ==
  IF hyp.goals THEN CalcSimVels(hyp.agents, hyp.n_goals) ELSE {<< >>}

\* what is read where no value was written, when no value is read there
NoJunk == [vel |-> ZeroVel, flag |-> FALSE, prior |-> 0]

\* The values the accesses of a tick outside a vector can yield: a velocity
\* past the end of sequence_sim_vels, a flag past the end of init_liks_ and,
\* when that flag is set, a prior past the end of prev_prior_
Junk(hyp, vels) ==
  IF hyp.agents = 0 THEN {NoJunk}
  ELSE {[vel |-> v, flag |-> f, prior |-> p] :
          v \in IF hyp.agents * hyp.n_goals > Len(vels)
                  THEN {VelA, VelC} ELSE {NoJunk.vel},
          f \in IF hyp.n_goals > VecSize THEN BOOLEAN ELSE {NoJunk.flag},
          p \in IF hyp.n_goals > VecSize THEN {One, NoJunk.prior}
                                         ELSE {NoJunk.prior}}

\* some iteration of the agent loop accesses a vector outside its bounds
\* (the iterations of one tick differ only in the block of sequence_sim_vels)
OutOfRangeTick(hyp, vels) ==
  /\ hyp.agents > 0
  /\ \/ hyp.agents * hyp.n_goals > Len(vels)
     \/ hyp.n_goals > VecSize
     \/ hyp.n_goals < LoggedGoals

\* lines 99-187: inferGoals on the predicted velocities vels that runSims
\* left in sequence_sim_vels.  A call that accesses a vector outside its
\* bounds either goes on with the values it got or ends the process.
InferGoals(vels) ==
  \E junk \in Junk(hypotheses_, vels) :
  \E recs \in {AgentLoop(0, << >>, hypotheses_.agents, hypotheses_.n_goals,
                         vels, robot_vel_, init_liks_, prev_prior_, junk)} :
    \/ /\ sequence_sim_vels' = vels
       /\ ticklog' = recs
       /\ init_liks_' = IF recs = << >> THEN init_liks_
                        ELSE recs[Len(recs)].init
       /\ prev_prior_' = IF recs = << >> THEN prev_prior_
                         ELSE recs[Len(recs)].stored
       /\ ticks' = IF hypotheses_.agents = 0 THEN ticks ELSE ticks + 1
       /\ UNCHANGED fault
    \/ /\ OutOfRangeTick(hypotheses_, vels)
       /\ fault' = TRUE
       /\ UNCHANGED <<sequence_sim_vels, ticklog, init_liks_,
                      prev_prior_, ticks>>

\* lines 93-97: runModel, with runSims (220-238) replacing sequence_sim_vels
\* by the simulator's predictions and inferGoals (99-187) running the agent
\* loop.  setupModel (189-218) only hands the environment to the simulator.
runModel ==
  /\ ~fault
  /\ ticks < MaxTicks
  /\ \E vels \in RunSims(hypotheses_) : InferGoals(vels)
  /\ UNCHANGED <<hypotheses_, robot_vel_, env_data_, tick_, experimentVars, mainVars,
                 plannerVars>>

Next == robotVelCB \/ modelCB \/ runModel

Spec == Init /\ [][Next]_vars

----------------------------------------------------------------------------
(* The node fed any message: no agent or no hypothesis, more hypotheses    *)
(* than init() sized the vectors for, goal-sequence simulation not asked   *)
(* for, a non-finite commanded velocity.                                   *)

\* lines 79-81
robotVelCBAny ==
  /\ ~fault
  /\ ticks < MaxAnyTicks
  /\ \E v \in {VelA, NaNVel} : robot_vel_' = v
  /\ UNCHANGED <<hypotheses_, sequence_sim_vels, init_liks_, prev_prior_,
                 ticklog, ticks, env_data_, fault, tick_, experimentVars, mainVars,
                 plannerVars>>

\* lines 88-91.  The hypothesis counts: none, fewer than the three the log
\* line reads, more than init() sized the vectors for.
modelCBAny ==
  /\ ~fault
  /\ ticks < MaxAnyTicks
  /\ \/ hypotheses_' = [agents |-> 0, n_goals |-> 0, goals |-> FALSE]
     \/ \E a \in 1..MaxAgents, n \in {0, VecSize - 1, VecSize + 1},
           g \in BOOLEAN :
          hypotheses_' = [agents |-> a, n_goals |-> n, goals |-> g]
  /\ UNCHANGED <<robot_vel_, sequence_sim_vels, init_liks_, prev_prior_,
                 ticklog, ticks, env_data_, fault, tick_, experimentVars, mainVars,
                 plannerVars>>

\* the agent velocities an environment message carries
EnvAgentVels == {<<ZeroVel, VelA>>}

\* lines 83-86
envDataCB ==
  /\ ~fault
  /\ ticks < MaxAnyTicks
  /\ \E e \in EnvAgentVels : env_data_' = e
  /\ UNCHANGED <<hypotheses_, robot_vel_, sequence_sim_vels, init_liks_,
                 prev_prior_, ticklog, ticks, fault, tick_, experimentVars, mainVars,
                 plannerVars>>

\* lines 93-97
runModelAny == ticks < MaxAnyTicks /\ runModel

NextAny == robotVelCBAny \/ modelCBAny \/ envDataCB \/ runModelAny

SpecAny == Init /\ [][NextAny]_vars

----------------------------------------------------------------------------
(* The node with runModel taken call by call: setupModel, runSims,         *)
(* inferGoals (lines 93-97), to see what each call reads.  The callbacks   *)
(* run between two runModel calls.                                         *)

\* the node is between two runModel calls
Idle == tick_.pc = "idle"

\* lines 79-81
robotVelCBStep == Idle /\ ticks < MaxStepTicks /\ robotVelCB

\* lines 88-91
modelCBStep ==
  /\ Idle
  /\ ~fault
  /\ ticks < MaxStepTicks
  /\ \E a \in 1..MaxAgents, g \in BOOLEAN :
       hypotheses_' = [agents |-> a, n_goals |-> VecSize, goals |-> g]
  /\ UNCHANGED <<robot_vel_, sequence_sim_vels, init_liks_, prev_prior_,
                 ticklog, ticks, env_data_, fault, tick_, experimentVars, mainVars,
                 plannerVars>>

\* lines 83-86
envDataCBStep == Idle /\ ticks < MaxStepTicks /\ envDataCB

\* lines 189-218: setupModel hands robot_vel_, env_data_ and
\* hypotheses_.agents to the simulator and, when goal-sequence simulation is
\* asked for, has it set up sequence_sims_ for the goal sequence
setupModel ==
  /\ Idle
  /\ ~fault
  /\ ticks < MaxStepTicks
  /\ tick_' = [pc |-> "setup",
               hyp |-> hypotheses_,
               prev |-> tick_.hyp,
               vel |-> robot_vel_,
               sequence_sims_ |-> IF hypotheses_.goals THEN hypotheses_
                                  ELSE tick_.sequence_sims_]
  /\ UNCHANGED <<modelVars, experimentVars, mainVars,
                 plannerVars>>

\* lines 220-238: calcSimVels runs the simulations of sequence_sims_ for the
\* n_goals of hypotheses_
runSims ==
  /\ ~fault
  /\ tick_.pc = "setup"
  /\ \E vels \in RunSims([agents |-> tick_.sequence_sims_.agents,
                          n_goals |-> hypotheses_.n_goals,
                          goals |-> hypotheses_.goals]) :
       sequence_sim_vels' = vels
  /\ tick_' = [tick_ EXCEPT !.pc = "sims"]
  /\ UNCHANGED <<hypotheses_, robot_vel_, init_liks_, prev_prior_, ticklog,
                 ticks, env_data_, fault, experimentVars, mainVars,
                 plannerVars>>

\* lines 99-187; a process ended inside inferGoals does not return from it
inferGoals ==
  /\ ~fault
  /\ tick_.pc = "sims"
  /\ InferGoals(sequence_sim_vels)
  /\ tick_' = [tick_ EXCEPT !.pc = IF fault' THEN "sims" ELSE "idle"]
  /\ UNCHANGED <<hypotheses_, robot_vel_, env_data_, experimentVars, mainVars,
                 plannerVars>>

NextSteps ==
  \/ robotVelCBStep \/ modelCBStep \/ envDataCBStep
  \/ setupModel \/ runSims \/ inferGoals

SpecSteps == Init /\ [][NextSteps]_vars

----------------------------------------------------------------------------
(* Experiment: the services (experiment.cpp), on any parameters            *)

\* lines 86-91
InitExperiment ==
  /\ InitModel
  /\ tick_ = IdleTick
  /\ \E cfg \in Configs : LoadParams(cfg)
  /\ InitMain
  /\ InitPlanner

\* the pose of a set_goal request
NewGoal == [x |-> MaxGoals, y |-> 1, theta |-> 0]

\* set_goal requests: an index that is stored from the start, and one that
\* never is
SetGoalRequests == [goal_no : {0, MaxGoals}, goal : {NewGoal}]

\* lines 202-213
setGoal ==
  /\ ros_ok
  /\ \E req \in SetGoalRequests :
       /\ req.goal_no >= Len(goals_) => Len(goals_) < MaxGoals
       /\ goals_' = IF req.goal_no < Len(goals_)
                      THEN [goals_ EXCEPT ![req.goal_no + 1] = req.goal]
                      ELSE Append(goals_, req.goal)
       /\ goal_no_' = IF req.goal_no < Len(goals_) THEN goal_no_
                      ELSE Len(goals_) + 1
       /\ srv_' = [call |-> "setGoal", req |-> req, ok |-> TRUE]
  /\ UNCHANGED <<modelVars, tick_, robots_, plans_, setup_plans_, ros_ok,
                 mainVars, plannerVars>>

\* set_plan requests: a robot that may be configured or not, and sequences
\* whose goal ids are below, at or above goal_no_
RequestPlans ==
  {[repeat |-> FALSE, sequence |-> <<0>>],
   [repeat |-> TRUE, sequence |-> <<1, MaxGoals - 1>>],
   [repeat |-> FALSE, sequence |-> << >>]}

SetPlanRequests == [robot : RobotNames \cup {"r2"}, plan : RequestPlans]

\* lines 219-220 and 233: the first robot of that name, 0 when there is none
FirstRobot(robots, name) ==
  IF \E i \in DOMAIN robots : robots[i] = name
    THEN CHOOSE i \in DOMAIN robots :
           robots[i] = name /\ \A j \in 1..(i - 1) : robots[j] # name
    ELSE 0

\* SequenceOk accepting the goal id goal_no_
SequenceOkInclusive(sequence, goal_no) ==
  \A k \in DOMAIN sequence : ~(sequence[k] > goal_no)

\* lines 221-226
SequenceOk(sequence, goal_no) ==
  \A k \in DOMAIN sequence : ~(sequence[k] >= goal_no)

\* lines 215-240
setPlan ==
  /\ ros_ok
  /\ \E req \in SetPlanRequests :
       LET i == FirstRobot(robots_, req.robot)
           ok == i # 0 /\ SequenceOk(req.plan.sequence, goal_no_)
       IN  /\ plans_' = IF ok THEN [plans_ EXCEPT ![i] = req.plan] ELSE plans_
           /\ srv_' = [call |-> "setPlan", req |-> req, ok |-> ok]
  /\ UNCHANGED <<modelVars, tick_, robots_, goal_no_, goals_, setup_plans_,
                 ros_ok, mainVars, plannerVars>>

NextExperiment == setGoal \/ setPlan

SpecExperiment == InitExperiment /\ [][NextExperiment]_vars

----------------------------------------------------------------------------
(* Experiment: main (experiment.cpp lines 12-82), the planning callback    *)
(* and the interrupt                                                       *)

\* the parameters main is run on: robots of different names (one planning
\* topic each), goals that load
MainConfigs ==
  {cfg \in Configs :
     /\ LoadOk(cfg)
     /\ cfg.plans = OneRobotConfig.plans
     /\ \A i, j \in DOMAIN cfg.robots : cfg.robots[i] = cfg.robots[j] => i = j}

\* lines 86-91
InitMainLoop ==
  /\ InitModel
  /\ tick_ = IdleTick
  /\ \E cfg \in MainConfigs : LoadParams(cfg)
  /\ InitMain
  /\ InitPlanner

\* Experiment::setPlanning(robot_no, planning)
SetPlanning(flags, robot_no, planning) ==
  [flags EXCEPT ![robot_no + 1] = planning]

\* Experiment::isPlanning(robot_no)
IsPlanning(flags, robot_no) == flags[robot_no + 1]

\* lines 172-178: one message per robot; the node subscribes to the topics
\* it publishes on (lines 105-112), with a queue of one message
PubPlanning(flags) ==
  /\ planning_pub_' = [i \in DOMAIN robots_ |-> Append(planning_pub_[i], flags[i])]
  /\ planning_sub_' = [i \in DOMAIN robots_ |-> <<flags[i]>>]

\* lines 259-270: the key that ends waitReturn
Keys == {"enter", "q"}

\* lines 266-267
WaitReturn(key) == interrupted_' = (interrupted_ \/ key = "q")

\* lines 19-25
launch ==
  /\ main_.pc = "launch"
  /\ \E key \in Keys : WaitReturn(key)
  /\ main_' = [main_ EXCEPT !.pc = "ready"]
  /\ UNCHANGED <<robots_planning_, planning_pub_, planning_sub_>>
  /\ UNCHANGED <<modelVars, tick_, experimentVars, plannerVars>>

\* lines 28-41: the loop ends when every robot is ready or on an interrupt;
\* the setup of the robots is skipped when interrupted
robotsReady ==
  /\ main_.pc = "ready"
  /\ main_' = [pc |-> IF interrupted_ \/ Len(robots_) = 0
                        THEN "run_wait" ELSE "setup_wait",
               robot_no |-> 0]
  /\ UNCHANGED <<robots_planning_, interrupted_, planning_pub_, planning_sub_>>
  /\ UNCHANGED <<modelVars, tick_, experimentVars, plannerVars>>

\* lines 45-50
setupRobot ==
  /\ main_.pc = "setup_wait"
  /\ \E key \in Keys : WaitReturn(key)
  /\ robots_planning_' = SetPlanning(robots_planning_, main_.robot_no, TRUE)
  /\ PubPlanning(robots_planning_')
  /\ main_' = [main_ EXCEPT !.pc = "setup_loop"]
  /\ UNCHANGED <<modelVars, tick_, experimentVars, plannerVars>>

\* lines 51-58 and the loop header at line 42: the wait for the robot ends,
\* main goes on to the next robot
setupDone ==
  /\ main_.pc = "setup_loop"
  /\ ~(IsPlanning(robots_planning_, main_.robot_no) /\ ~interrupted_)
  /\ main_' = IF main_.robot_no + 1 < Len(robots_)
                THEN [pc |-> "setup_wait", robot_no |-> main_.robot_no + 1]
                ELSE [pc |-> "run_wait", robot_no |-> 0]
  /\ UNCHANGED <<robots_planning_, interrupted_, planning_pub_, planning_sub_>>
  /\ UNCHANGED <<modelVars, tick_, experimentVars, plannerVars>>

\* lines 63-72
startRun ==
  /\ main_.pc = "run_wait"
  /\ \E key \in IF interrupted_ THEN {"none"} ELSE Keys : WaitReturn(key)
  /\ robots_planning_' = [i \in DOMAIN robots_ |-> TRUE]
  /\ PubPlanning(robots_planning_')
  /\ main_' = [main_ EXCEPT !.pc = "running"]
  /\ UNCHANGED <<modelVars, tick_, experimentVars, plannerVars>>

\* lines 73-79 and 253-257: the run ends on an interrupt
stopExperiment ==
  /\ main_.pc = "running"
  /\ interrupted_
  /\ robots_planning_' = [i \in DOMAIN robots_ |-> FALSE]
  /\ PubPlanning(robots_planning_')
  /\ main_' = [main_ EXCEPT !.pc = "done"]
  /\ UNCHANGED interrupted_
  /\ UNCHANGED <<modelVars, tick_, experimentVars, plannerVars>>

\* lines 17 and 168-170: SIGINT
interrupt ==
  /\ main_.pc # "done"
  /\ interrupted_' = TRUE
  /\ UNCHANGED <<main_, robots_planning_, planning_pub_, planning_sub_>>
  /\ UNCHANGED <<modelVars, tick_, experimentVars, plannerVars>>

\* main is in a loop that calls ros::spinOnce() (lines 30, 52, 75)
Spinning == main_.pc \in {"ready", "setup_loop", "running"}

\* lines 192-200, on the message that waits on the topic of robots_[i]
planningCB ==
  /\ Spinning
  /\ \E i \in DOMAIN robots_ :
       /\ planning_sub_[i] # << >>
       /\ robots_planning_' =
            [robots_planning_ EXCEPT ![FirstRobot(robots_, robots_[i])] =
               planning_sub_[i][1]]
       /\ planning_sub_' = [planning_sub_ EXCEPT ![i] = << >>]
  /\ UNCHANGED <<main_, interrupted_, planning_pub_>>
  /\ UNCHANGED <<modelVars, tick_, experimentVars, plannerVars>>

\* a robot that was told to plan reports that it has finished: planning =
\* false on its topic
robotDone ==
  /\ main_.pc # "done"
  /\ \E i \in DOMAIN robots_ :
       /\ planning_pub_[i] # << >>
       /\ planning_pub_[i][Len(planning_pub_[i])]
       /\ planning_sub_' = [planning_sub_ EXCEPT ![i] = <<FALSE>>]
  /\ UNCHANGED <<main_, robots_planning_, interrupted_, planning_pub_>>
  /\ UNCHANGED <<modelVars, tick_, experimentVars, plannerVars>>

NextMain ==
  \/ launch \/ robotsReady \/ setupRobot \/ setupDone \/ startRun
  \/ stopExperiment \/ interrupt \/ planningCB \/ robotDone

SpecMain == InitMainLoop /\ [][NextMain]_vars

----------------------------------------------------------------------------
(* PlannerWrapper (planner_wrapper.cpp)                                    *)

\* the planner types of a SetupNewPlanner request: the two the message
\* names, and any other value
KnownTypes == {"RVO_PLANNER", "ROS_NAVIGATION"}

PlannerTypes == KnownTypes \cup {"other"}

\* NewPlanner with the test of planner_init left out of the second branch
NewPlannerUnlatchedNavigation(planner_type, init) ==
  IF planner_type = "RVO_PLANNER" /\ ~init THEN "rvo"
  ELSE IF planner_type = "ROS_NAVIGATION" THEN "nav"
  ELSE "none"

\* lines 97-107: the planner object the request creates
NewPlanner(planner_type, init) ==
  IF planner_type = "RVO_PLANNER" /\ ~init THEN "rvo"
  ELSE IF planner_type = "ROS_NAVIGATION" /\ ~init THEN "nav"
  ELSE "none"

\* lines 93-109
setupNewPlanner ==
  /\ Len(planners_) < MaxPlanners
  /\ \E planner_type \in PlannerTypes :
       \E new \in {NewPlanner(planner_type, planner_init)} :
         /\ planners_' = IF new = "none" THEN planners_
                         ELSE Append(planners_, new)
         /\ use_rvo_planner_' = (use_rvo_planner_ \/ new = "rvo")
         /\ use_ros_navigation_' = (use_ros_navigation_ \/ new = "nav")
         /\ planner_init' = (planner_init \/ new # "none")
         /\ rvo_curr_vel_' = IF new = "rvo" THEN "initial" ELSE rvo_curr_vel_
         /\ step_' = [NoStep EXCEPT !.call = "setupNewPlanner",
                                    !.req = planner_type,
                                    !.ok = (new # "none")]
  /\ UNCHANGED <<planning_, arrived_, cmd_vel_>>
  /\ UNCHANGED <<modelVars, tick_, experimentVars, mainVars>>

\* lines 168-170
plannerPlanningCB ==
  /\ \E data \in BOOLEAN :
       /\ planning_' = data
       /\ step_' = [NoStep EXCEPT !.call = "planningCB"]
  /\ UNCHANGED <<use_rvo_planner_, use_ros_navigation_, planner_init,
                 arrived_, planners_, rvo_curr_vel_, cmd_vel_>>
  /\ UNCHANGED <<modelVars, tick_, experimentVars, mainVars>>

\* PublishesCmdVel with the publish moved out of the test of planning_
PublishesCmdVelNotPlanning(planning, use_rvo) == use_rvo

\* lines 120-126: the step publishes cmd_vel_
PublishesCmdVel(planning, use_rvo) == planning /\ use_rvo

\* lines 120-131: the planner whose planStep() the step calls
PlanStep(planning, use_rvo, use_nav) ==
  IF planning /\ use_rvo THEN "rvo"
  ELSE IF planning /\ use_nav THEN "nav"
  ELSE "none"

\* lines 119-143.  getArrived() answers either value; planStep() returns
\* a velocity and leaves the RVO planner with the velocity it planned.
plannerStep ==
  /\ \E get_arrived \in BOOLEAN, rvo_planner_vel_ \in ObsVels :
     \E plan_step \in {PlanStep(planning_, use_rvo_planner_,
                                use_ros_navigation_)} :
       /\ arrived_' = IF plan_step = "none" THEN arrived_ ELSE get_arrived
       /\ step_' = [NoStep EXCEPT
                      !.call = "plannerStep",
                      !.cmd_vel = PublishesCmdVel(planning_, use_rvo_planner_),
                      !.arrived = (planning_ /\ arrived_'),
                      !.plan_step = plan_step]
       /\ cmd_vel_' = IF plan_step = "rvo" THEN rvo_planner_vel_ ELSE cmd_vel_
       /\ rvo_curr_vel_' = IF plan_step = "rvo" THEN "planned"
                           ELSE IF ~planning_ /\ use_rvo_planner_ THEN "null"
                           ELSE rvo_curr_vel_
  /\ UNCHANGED <<use_rvo_planner_, use_ros_navigation_, planner_init,
                 planning_, planners_>>
  /\ UNCHANGED <<modelVars, tick_, experimentVars, mainVars>>

NextPlanner == setupNewPlanner \/ plannerPlanningCB \/ plannerStep

SpecPlanner == Init /\ [][NextPlanner]_vars

----------------------------------------------------------------------------
(* Reading the log *)

\* the agents (1-based positions in the log) of the last tick
Logged == 1..Len(ticklog)

\* a step of runModel that processed at least one agent
TickStep == ticks' = ticks + 1

\* the agents processed both by the last tick and by the tick of this step
InBoth == {k \in Logged : k <= Len(ticklog')}

Goals(rec) == 1..rec.n_goals

\* the update had no valid prior for any hypothesis
FirstUpdate(rec) == \A g \in Goals(rec) : ~rec.was_init[g]

\* the update read a stored prior for every hypothesis
BayesUpdate(rec) == \A g \in Goals(rec) : rec.was_init[g]

Degenerate(rec) == rec.norm = 0

IsUniform(rec) == \A g \in Goals(rec) : rec.belief[g] = RDiv(One, rec.n_goals)

\* the likelihood of g is strictly the largest
Favours(rec, g) == \A h \in Goals(rec) \ {g} : rec.liks[h] < rec.liks[g]

\* q is a / b rounded to nearest
IsQuotient(q, a, b) == 2 * a - b <= 2 * b * q /\ 2 * b * q <= 2 * a + b

Abs(x) == IF x < 0 THEN -x ELSE x

----------------------------------------------------------------------------
(* The claims *)

\* C1: every belief vector produced by inferGoals has only non-negative
\* entries and its entries sum to 1, within half a unit of rounding per entry,
\* on a first tick, a Bayes tick, a degenerate tick and a tick after a change
\* of the hypothesis count alike.
C1_BeliefNormalised ==
  \A k \in Logged :
    LET rec == ticklog[k]
    IN  /\ DOMAIN rec.belief = Goals(rec)
        /\ \A g \in Goals(rec) : rec.belief[g] >= 0
        /\ 2 * Abs(Sum(rec.belief) - One) <= rec.n_goals

\* C1 witness: a tick after the hypothesis count grew from 2 to 3, where the
\* update mixes two stored priors with one fresh uniform entry
C1_Witness ==
  \E k \in Logged :
    /\ ticklog[k].n_goals = 3
    /\ ticklog[k].was_init = <<TRUE, TRUE, FALSE>>
    /\ ~IsUniform(ticklog[k])
    /\ Sum(ticklog[k].belief) # One

\* C2: on an agent's first tick the belief is the Bayes posterior under the
\* uniform prior, so proportional to the likelihoods; with N = 3, the observed
\* velocity equal to predicted[0] and far from predicted[1] and predicted[2],
\* belief[0] is above 0.98 and the belief is not uniform.
\* (A likelihood is PeakLik exactly when observed and predicted are equal, and
\* 0 when they are further apart than the underflow radius.)
C2_FirstTickBayes ==
  \A k \in Logged :
    LET rec == ticklog[k]
    IN  FirstUpdate(rec) /\ Sum(rec.liks) > 0 =>
          /\ \A g \in Goals(rec) :
               IsQuotient(rec.belief[g], rec.liks[g] * One, Sum(rec.liks))
          /\ rec.liks = <<PeakLik, 0, 0>> =>
               rec.belief[1] > 980 /\ ~IsUniform(rec)

\* C3: the prior an agent's update reads is the one that agent's own update
\* stored on the previous tick, whatever the other agents' updates did since.
C3_PriorPerAgent ==
  [][TickStep => \A k \in InBoth : ticklog'[k].prior = ticklog[k].stored]_vars

\* C4: an update whose unnormalised posteriors sum to 0 returns exactly 1/N for
\* every hypothesis and leaves every stored prior and init flag as it was, so
\* the update that follows it (the next agent's, or the first of the next tick)
\* reads the prior from before the degenerate update and, when it is not
\* degenerate itself, builds its posterior from that prior.
C4_DegenerateFallback ==
  [][TickStep =>
       /\ \A k \in 1..Len(ticklog') :
            LET rec == ticklog'[k]
            IN  Degenerate(rec) =>
                  /\ IsUniform(rec)
                  /\ rec.stored = rec.prior
                  /\ rec.init = rec.was_init
                  /\ k < Len(ticklog') => ticklog'[k + 1].prior = rec.prior
                  /\ k = Len(ticklog') => prev_prior_' = rec.prior
       /\ ticklog # << >> /\ Degenerate(ticklog[Len(ticklog)]) =>
            LET old == ticklog[Len(ticklog)].prior
                rec == ticklog'[1]
            IN  /\ rec.prior = old
                /\ \A g \in Goals(rec) :
                     rec.was_init[g] => rec.post[g] = rec.liks[g] * old[g]
    ]_vars

\* C4 witness: a degenerate update that read a stored, non-uniform prior, with
\* a tick still to follow it
C4_Witness ==
  /\ ticks < MaxTicks
  /\ \E k \in Logged :
       LET rec == ticklog[k]
       IN  /\ Degenerate(rec)
           /\ rec.n_goals = 3
           /\ BayesUpdate(rec)
           /\ rec.prior[1] # rec.prior[2]
           /\ IsUniform(rec)
           /\ prev_prior_ = rec.prior

\* C5: when the unnormalised posteriors sum to Z # 0, the returned value of
\* each hypothesis is P/Z as it is (not clamped), and the stored prior is P/Z
\* when that is above 0.01 and 0.005 otherwise, 0.01 itself included; the
\* value stored by the last agent is what prev_prior_ holds after the tick.
C5_AntiCollapseFloor ==
  /\ \A k \in Logged :
       LET rec == ticklog[k]
       IN  ~Degenerate(rec) =>
             \A g \in Goals(rec) :
               /\ IsQuotient(rec.belief[g], rec.post[g] * One, rec.norm)
               /\ rec.belief[g] > Threshold => rec.stored[g] = rec.belief[g]
               /\ rec.belief[g] <= Threshold => rec.stored[g] = FloorPrior
  /\ ticklog # << >> => prev_prior_ = ticklog[Len(ticklog)].stored

\* C5 witness: a hypothesis whose normalised posterior is exactly 0.01 and one
\* whose posterior is 0, both stored as 0.005 by the last update of the tick
C5_Witness ==
  /\ ticklog # << >>
  /\ LET rec == ticklog[Len(ticklog)]
     IN  /\ ~Degenerate(rec)
         /\ \E g \in Goals(rec) :
              rec.belief[g] = Threshold /\ prev_prior_[g] = FloorPrior

\* a stored prior that an update may read: 0.005 or above 0.01
LivePrior(p) == p = FloorPrior \/ p > Threshold

RECURSIVE Floored(_, _)
Floored(rec, n) ==
  IF n = 0 THEN 0
  ELSE Floored(rec, n - 1) + (IF rec.stored[n] = FloorPrior THEN 1 ELSE 0)

C9_ResetOnCountChange ==
  [][TickStep /\ ticklog # << >> /\ ticklog[1].n_goals # ticklog'[1].n_goals =>
       \A k \in 1..Len(ticklog') :
         FirstUpdate(ticklog'[k]) /\ IsUniform(ticklog'[k])
    ]_vars

\* the observed velocity equals the prediction of g and every other
\* hypothesis has a strictly smaller likelihood
StableOn(rec, g) == rec.liks[g] = PeakLik /\ Favours(rec, g)

\* C10: when every tick so far had the observed velocity equal to
\* predicted[g*] for an agent, every other likelihood strictly smaller, the
\* belief in g* returned for that agent does not decrease from one tick to
\* the next.  The first two ticks are the shortest such run.
C10_MonotoneConvergence ==
  [][TickStep /\ ticks = 1 =>
       \A k \in InBoth : \A g \in Goals(ticklog[k]) \cap Goals(ticklog'[k]) :
         StableOn(ticklog[k], g) /\ StableOn(ticklog'[k], g) =>
           ticklog'[k].belief[g] >= ticklog[k].belief[g]
    ]_vars

\* C11: each agent's likelihoods are evaluated at that agent's own observed
\* velocity: two agents of a tick whose velocities in the environment data
\* differ and whose predicted velocities are the same are given different
\* observed velocities, on a tick with at least one hypothesis and a full
\* block of predictions for each agent.  (The agent at position k of
\* hypotheses_.agents is taken to be agent k of env_data_.agent_vels.)
C11_OwnObservedVelocity ==
  [][TickStep =>
       \A j, k \in 1..Len(ticklog') :
         /\ j <= Len(env_data_) /\ k <= Len(env_data_)
         /\ env_data_[j] # env_data_[k]
         /\ ticklog'[j].n_goals > 0
         /\ "sequence_sim_vels" \notin ticklog'[j].oob \cup ticklog'[k].oob
         /\ ticklog'[j].sims = ticklog'[k].sims
         => ticklog'[j].cur # ticklog'[k].cur
    ]_vars

\* C12: agent-major slicing.  For the agent at index k (position k + 1 of the
\* log) and every hypothesis g, the predicted velocity used is element
\* k * N + g of sequence_sim_vels, the agent is given exactly N of them, and
\* its likelihoods are those of these N elements.
C12_AgentMajorSlicing ==
  \A k \in Logged :
    LET rec == ticklog[k]
        n == rec.n_goals
    IN  /\ DOMAIN rec.sims = 1..n
        /\ \A g \in 1..n :
             /\ (k - 1) * n + g <= Len(sequence_sim_vels)
             /\ rec.sims[g] = sequence_sim_vels[(k - 1) * n + g]
             /\ rec.liks[g] = Likelihood(sequence_sim_vels[(k - 1) * n + g],
                                         rec.cur)

\* C12 witness: two agents with three hypotheses each, whose blocks and
\* likelihoods differ
C12_Witness ==
  /\ Len(ticklog) = 2
  /\ ticklog[1].n_goals = 3
  /\ Len(sequence_sim_vels) = 6
  /\ ticklog[1].sims # ticklog[2].sims
  /\ ticklog[1].liks # ticklog[2].liks
  /\ ticklog[2].sims = SubSeq(sequence_sim_vels, 4, 6)

\* the update of position k of the log had no full block of predictions:
\* its block ends past the end of the sequence runSims left
NoFullBlock(k, rec, vels) == k * rec.n_goals > Len(vels)

\* C13: an agent for which sequence_sim_vels holds no full block of N
\* predictions (the sequence is empty because runSims cleared it and did not
\* refill it, or is shorter than agents * N) is skipped for the tick: nothing
\* is read past the end of the sequence, no belief is produced for it and no
\* stored prior or init flag is changed by it.  (Checked on ticks with a
\* finite commanded velocity.)
C13_SkipAgentWithoutBlock ==
  [][TickStep /\ ~NonFinite(robot_vel_) =>
       \A k \in 1..Len(ticklog') :
         LET rec == ticklog'[k]
         IN  NoFullBlock(k, rec, sequence_sim_vels') =>
               /\ "sequence_sim_vels" \notin rec.oob
               /\ rec.belief = << >>
               /\ rec.stored = rec.prior
               /\ rec.init = rec.was_init
    ]_vars

\* C14: a tick with N = 0 hypotheses ends in a reported error: 1 / N is not
\* evaluated, no entry of the (empty) belief vector is read, the stored
\* priors and init flags are unchanged, and the process goes on.
C14_NoHypotheses ==
  [][hypotheses_.n_goals = 0 =>
       /\ ~fault'
       /\ TickStep =>
            /\ init_liks_' = init_liks_ /\ prev_prior_' = prev_prior_
            /\ \A k \in 1..Len(ticklog') :
                 /\ ticklog'[k].uniform # Inf
                 /\ "norm_posteriors" \notin ticklog'[k].oob
    ]_vars

\* the observed velocity or one of the predicted velocities of the update
\* has a non-finite component
NonFiniteInput(rec) ==
  NonFinite(rec.cur) \/ \E g \in Goals(rec) : NonFinite(rec.sims[g])

\* C15: an update whose observed or predicted velocity has a non-finite
\* component is rejected before any likelihood is computed: no likelihood and
\* no belief entry is non-finite, and the stored prior and the init flags are
\* unchanged by it.  (Checked on updates that have a full block of
\* predictions and a stored prior for each of at most three hypotheses.)
C15_RejectNonFinite ==
  [][TickStep =>
       \A k \in 1..Len(ticklog') :
         LET rec == ticklog'[k]
         IN  /\ rec.oob \subseteq {"norm_posteriors"}
             /\ NonFiniteInput(rec)
             /\ BayesUpdate(rec)
             =>
               /\ \A g \in Goals(rec) : rec.liks[g] # NaN /\ rec.belief[g] # NaN
               /\ rec.stored = rec.prior
               /\ rec.init = rec.was_init
    ]_vars

\* C16: an agent that was not in the tracked-agent list of the previous
\* runModel call (it appears for the first time, or re-appears after having
\* been dropped) starts uninitialised: its update reads no stored prior and
\* returns the uniform belief; and a tick produces beliefs for the agents of
\* the current list only.  (Checked on ticks that track a single agent, with
\* a full block of finite predictions and a finite commanded velocity, so
\* that no other agent's update comes between.)
C16_TrackLifecycle ==
  [][ticklog' # ticklog =>
       /\ Len(ticklog') = hypotheses_.agents
       /\ \A k \in 1..Len(ticklog') :
            /\ k > Len(ticklog)
            /\ Len(ticklog') = 1
            /\ ~NonFiniteInput(ticklog'[k])
            /\ ticklog'[k].oob \subseteq {"norm_posteriors"}
            => FirstUpdate(ticklog'[k]) /\ IsUniform(ticklog'[k])
    ]_vars

\* the vectors the claim of index safety is about (sequence_sim_vels is not
\* one of them; g_likelihoods and g_posteriors are resized to N and indexed
\* below N at every use, lines 110-111, 141, 147-148, 153-159, 173)
IndexedVectors == {"init_liks_", "prev_prior_", "norm_posteriors"}

\* C18: index safety for every hypothesis count.  On a tick with N >= 1
\* hypotheses, for any number of agents, no update of inferGoals uses an index
\* outside prev_prior_, init_liks_ or norm_posteriors (the G0/G1/G2 log read
\* included), and the process is not ended by such an access.  (Checked on
\* ticks with a full block of predictions for every agent.)
C18_IndexSafety ==
  [][hypotheses_.n_goals >= 1 /\ hypotheses_.goals =>
       /\ ~fault'
       /\ TickStep =>
            \A k \in 1..Len(ticklog') : ticklog'[k].oob \cap IndexedVectors = {}
    ]_vars

\* the step is the inferGoals call of a runModel call
InferStep == tick_.pc = "sims" /\ tick_'.pc = "idle"

\* C17: tick atomicity and snapshot consistency.  With the callbacks run
\* between runModel calls, the hypothesis message and N that inferGoals
\* slices with are those setupModel and runSims produced the predicted
\* velocities from (the sequence holds agents * N predictions of this call,
\* or none when goal-sequence simulation is not asked for), the observed
\* velocity inferGoals reads is the one setupModel read, and a runModel call
\* starts only when no other is under way.
C17_TickSnapshot ==
  [][/\ InferStep =>
          /\ hypotheses_ = tick_.hyp
          /\ hypotheses_.goals => tick_.sequence_sims_ = hypotheses_
          /\ robot_vel_ = tick_.vel
          /\ Len(sequence_sim_vels) =
               IF hypotheses_.goals
                 THEN hypotheses_.agents * hypotheses_.n_goals ELSE 0
          /\ \A k \in 1..Len(ticklog') :
               /\ ticklog'[k].cur = tick_.vel
               /\ ticklog'[k].n_goals = tick_.hyp.n_goals
     /\ tick_'.pc = "setup" => tick_.pc = "idle"
     /\ tick_.pc # "idle" =>
          /\ hypotheses_' = hypotheses_
          /\ robot_vel_' = robot_vel_
          /\ env_data_' = env_data_
    ]_vars

\* C17 witness: the second runModel call is done; between the two calls
\* the callbacks replaced the hypothesis message (one agent, then two) and
\* the observed velocity
C17_Witness ==
  /\ Idle
  /\ ticks = 2
  /\ tick_.prev.agents = 1 /\ tick_.prev.goals
  /\ tick_.hyp.agents = 2 /\ tick_.hyp.goals
  /\ tick_.hyp = hypotheses_
  /\ Len(ticklog) = 2
  /\ Len(sequence_sim_vels) = 2 * VecSize
  /\ ticklog[1].cur = VelA
  /\ ticklog[1].was_init[1]

\* the goal ids of a plan sequence
Ids(sequence) == {sequence[k] : k \in DOMAIN sequence}

\* C19: after loadParams, the setup plan of every robot has repeat = false
\* and, for a robot whose configured sequence is not empty, a sequence of
\* exactly one element, the first goal id of the configured sequence; and no
\* setup plan holds a goal id that is absent from the robot's configured plan
\* (so the setup plan of a robot with an empty sequence holds none).  Before
\* the first service request plans_ holds the configured plans.  (Checked on
\* parameters that loadParams loads without shutting the node down.)
C19_SetupPlan ==
  srv_ = NoCall /\ ros_ok =>
    \A i \in DOMAIN robots_ :
      /\ setup_plans_[i].repeat = FALSE
      /\ plans_[i].sequence # << >> =>
           setup_plans_[i].sequence = <<plans_[i].sequence[1]>>
      /\ Ids(setup_plans_[i].sequence) \subseteq Ids(plans_[i].sequence)

\* the step serves a set_plan request
SetPlanStep == srv_'.call = "setPlan" /\ (srv_' # srv_ \/ plans_' # plans_)

\* C20: setPlan answers ok = true if and only if the requested robot is one
\* of the configured robots and every goal id of the requested sequence is
\* below goal_no_; then the named robot's plan is the requested one and the
\* plan of every robot of another name is unchanged; in every other case
\* the plans of all robots are unchanged.  The setup plans never change.
C20_SetPlan ==
  [][SetPlanStep =>
       LET req == srv_'.req
           valid == /\ \E i \in DOMAIN robots_ : robots_[i] = req.robot
                    /\ \A k \in DOMAIN req.plan.sequence :
                         req.plan.sequence[k] < goal_no_
       IN  /\ srv_'.ok = valid
           /\ valid =>
                /\ DOMAIN plans_' = DOMAIN plans_
                /\ \E i \in DOMAIN robots_ :
                     robots_[i] = req.robot /\ plans_'[i] = req.plan
                /\ \A j \in DOMAIN robots_ :
                     robots_[j] # req.robot => plans_'[j] = plans_[j]
           /\ ~valid => plans_' = plans_
           /\ setup_plans_' = setup_plans_
    ]_vars

\* C20 witness: the plan of the second of two robots was replaced by a
\* requested plan with two goal ids, after setGoal had raised goal_no_ to
\* make them valid, and the first robot kept another plan
C20_Witness ==
  /\ srv_.call = "setPlan"
  /\ srv_.ok
  /\ robots_ = <<"r0", "r1">>
  /\ srv_.req.robot = "r1"
  /\ srv_.req.plan.sequence = <<1, MaxGoals - 1>>
  /\ goal_no_ = MaxGoals
  /\ plans_[2] = srv_.req.plan
  /\ plans_[1] # srv_.req.plan

\* the step serves a set_goal request
SetGoalStep == srv_'.call = "setGoal" /\ (srv_' # srv_ \/ goals_' # goals_)

\* goal_no_ is the number of stored goals and every goal id of every stored
\* plan is an index into the stored goals
GoalsConsistent(goal_no, goals, plans, setup_plans) ==
  /\ goal_no = Len(goals)
  /\ \A i \in DOMAIN plans :
       /\ Ids(plans[i].sequence) \subseteq 0..(Len(goals) - 1)
       /\ Ids(setup_plans[i].sequence) \subseteq 0..(Len(goals) - 1)

\* C21: after loadParams and any sequence of setGoal and setPlan requests,
\* goal_no_ equals the number of stored goals and every goal id of every
\* stored plan, loaded or accepted by setPlan, is a valid index into the
\* stored goals; setGoal with an index below the goal count replaces that
\* goal and leaves the count and the other goals alone, and with any other
\* index appends exactly the requested goal at the end.  (Checked on
\* parameters that loadParams loads without shutting the node down.)
C21_GoalBookkeeping ==
  [][/\ ros_ok => GoalsConsistent(goal_no_, goals_, plans_, setup_plans_)
     /\ ros_ok' => GoalsConsistent(goal_no_', goals_', plans_', setup_plans_')
     /\ SetGoalStep =>
          LET req == srv_'.req
          IN  IF req.goal_no < Len(goals_)
                THEN /\ Len(goals_') = Len(goals_)
                     /\ goals_'[req.goal_no + 1] = req.goal
                     /\ \A k \in DOMAIN goals_ :
                          k # req.goal_no + 1 => goals_'[k] = goals_[k]
                ELSE goals_' = Append(goals_, req.goal)
    ]_vars

\* main is in the setup phase of the robots (lines 39-59)
InSetup == main_.pc \in {"setup_wait", "setup_loop"}

\* the robots whose planning flag is set
Planning == {i \in DOMAIN robots_ : robots_planning_[i]}

\* C22: during the setup phase of main at most one robot's planning flag is
\* true at any time, also when the user interrupts while a robot is still
\* setting up
C22_OnePlanningInSetup == InSetup => Cardinality(Planning) <= 1

\* the planning messages a step publishes to robot i
Published(i) ==
  {planning_pub_'[i][k] : k \in (Len(planning_pub_[i]) + 1)..Len(planning_pub_'[i])}

\* C23: once interrupted the experiment stays interrupted, no step after the
\* interruption publishes planning = true to a robot, and when main has
\* called stopExperiment every robots_planning_ entry is false and the last
\* planning message published to every robot is false
C23_Interrupted ==
  [][/\ interrupted_ => interrupted_'
     /\ interrupted_ => \A i \in DOMAIN robots_ : TRUE \notin Published(i)
     /\ main_'.pc = "done" =>
          \A i \in DOMAIN robots_ :
            /\ ~robots_planning_'[i]
            /\ planning_pub_'[i] # << >>
            /\ ~planning_pub_'[i][Len(planning_pub_'[i])]
    ]_vars

\* the step serves a setup_new_planner request
SetupNewPlannerStep == step_'.call = "setupNewPlanner"

\* C24: planner selection is a one-shot latch.  At most one planner object
\* is ever created, use_rvo_planner_ and use_ros_navigation_ are never both
\* true, a request is answered ok = true exactly when its type is known and
\* no planner was created before (so the first request with a known type
\* is), and a request answered ok = false changes no planner state.
C24_PlannerLatch ==
  [][/\ Len(planners_') <= 1
     /\ ~(use_rvo_planner_' /\ use_ros_navigation_')
     /\ planner_init' = (planners_' # << >>)
     /\ SetupNewPlannerStep =>
          /\ step_'.ok = (step_'.req \in KnownTypes /\ planners_ = << >>)
          /\ step_'.ok => Len(planners_') = 1
          /\ ~step_'.ok =>
               /\ planners_' = planners_
               /\ use_rvo_planner_' = use_rvo_planner_
               /\ use_ros_navigation_' = use_ros_navigation_
               /\ planner_init' = planner_init
               /\ rvo_curr_vel_' = rvo_curr_vel_
    ]_vars

\* C24 witness: a request for a second planner was refused after the RVO
\* planner had been created
C24_Witness ==
  /\ planners_ = <<"rvo">>
  /\ use_rvo_planner_ /\ ~use_ros_navigation_
  /\ step_.call = "setupNewPlanner"
  /\ step_.req = "ROS_NAVIGATION"
  /\ ~step_.ok

\* the step is a plannerStep call
PlannerStepStep == step_'.call = "plannerStep"

\* C25: plannerStep publishes a velocity command only when planning_ is true
\* and the RVO planner is in use; when planning_ is false it publishes no
\* command, executes no planner step and, if the RVO planner is in use,
\* leaves its current velocity the null vector; arrived = true is published
\* only when planning_ is true.
C25_PlannerStep ==
  [][PlannerStepStep =>
       /\ step_'.cmd_vel => planning_ /\ use_rvo_planner_
       /\ ~planning_ =>
            /\ ~step_'.cmd_vel
            /\ step_'.plan_step = "none"
            /\ use_rvo_planner_ => rvo_curr_vel_' = "null"
       /\ step_'.arrived => planning_
    ]_vars

\* C25 witness: the RVO planner had planned a velocity, planning was turned
\* off, and the next plannerStep published nothing and set the planner's
\* velocity to null
C25_Witness ==
  /\ step_.call = "plannerStep"
  /\ use_rvo_planner_
  /\ ~planning_
  /\ ~step_.cmd_vel
  /\ rvo_curr_vel_ = "null"
  /\ arrived_

====
